---- MODULE Spec2Model ----
(***************************************************************************)
(* Model of playlistext (src/main.py): the line codec (track_to_str,       *)
(* track_id_from_str), the paginated pull, the chunked push and the        *)
(* command loop.                                                           *)
(*                                                                         *)
(* A Python str is a sequence of one-character strings, so that slicing,   *)
(* padding, splitting and stripping are computed and not assumed.  A text  *)
(* file is the sequence of the characters written to it.                   *)
(***************************************************************************)
EXTENDS Integers, Sequences, FiniteSets, TLC

VARIABLES
    pc,           \* position of the running function / of the command loop
    track,        \* codec: the track record handed to track_to_str
    name_str,     \* codec: local name_str of track_to_str
    artists_str,  \* codec: local artists_str of track_to_str
    line,         \* codec: the line track_to_str returned
    decoded,      \* codec: what track_id_from_str returned for that line
    remote,       \* the remote playlist's track list (identifiers, in order)
    prior,        \* push: the remote track list when set_playlist_tracks began
    ids_arg,      \* push: the argument track_ids as the caller passed it
    track_ids,    \* push: local track_ids of set_playlist_tracks (what is left)
    writes,       \* push: the remote writes that returned, in order
    raised,       \* the remote call that raised ("" while none has)
    playlist,     \* pull: the items the service serves for the playlist
    total_tracks, \* pull: local total_tracks of get_playlist_tracks
    offset,       \* pull: local offset of get_playlist_tracks
    tracks,       \* pull: local tracks of get_playlist_tracks (items so far)
    requests,     \* pull: the playlist_tracks calls that returned, in order
    file,         \* the playlist's text file: the characters it holds
    playlists,    \* loop: playlists['items'], fetched once at line 121
    library,      \* loop: the items the service holds, by playlist id
    folder_exists,\* loop: whether the folder PLAYLISTS_FOLDER exists
    entries,      \* loop: the folder's entries [stem, ext, isfile]
    content,      \* loop: the characters of <stem>.txt, by stem
    command,      \* loop: the command handled last [cmd, name, answer]
    printed       \* loop: what handling it printed [msg, names]

codecVars == <<track, name_str, artists_str, line, decoded>>
pushVars == <<remote, prior, ids_arg, track_ids, writes>>
pullVars == <<playlist, total_tracks, offset, tracks, requests, file>>
mainVars == <<playlists, library, folder_exists, entries, content, command, printed>>
vars == <<pc, raised, codecVars, pushVars, pullVars, mainVars>>

(***************************************************************************)
(* Program constants.                                                      *)
(***************************************************************************)
chunk_size == 100
TITLE_WIDTH == 50
ARTIST_WIDTH == 40
ID_WIDTH == 22

(***************************************************************************)
(* Bounds of the model.                                                    *)
(***************************************************************************)
MaxTitleLen == 52     \* titles of 0..MaxTitleLen characters (> TITLE_WIDTH)
MaxArtistLen == 21    \* each artist name has 0..MaxArtistLen characters
MaxArtists == 2       \* 0..MaxArtists artists per track (joined: > ARTIST_WIDTH)
NumIds == 3           \* distinct valid identifiers
MaxIds == 201         \* set_playlist_tracks is handed 0..MaxIds identifiers
MaxPrior == 2         \* the remote playlist holds 0..MaxPrior tracks before a push
MaxTracks == 201      \* a pulled playlist holds 0..MaxTracks items
MaxStride == 3        \* every stride-th item of a pulled playlist is invalid (0: none)
MaxLoopTracks == 2    \* command loop: playlists and files of 0..MaxLoopTracks tracks

(***************************************************************************)
(* Python values.                                                          *)
(***************************************************************************)
\* None where a str is expected (track['id'] of a local track).
None == <<"<None>">>
\* None where a track record is expected (item['track'] of a removed track).
NoTrack == [missing |-> TRUE]
is_None_track(t) == DOMAIN t = {"missing"}

Whitespace == {" ", "\n", "\t", "\r"}

Spaces(n) == [i \in 1..n |-> " "]

\* A text of len characters, all fill, with a '|' at position pipeAt (0: none).
Text(len, fill, pipeAt) == [i \in 1..len |-> IF i = pipeAt THEN "|" ELSE fill]

\* Identifiers as the service assigns them: base-62 characters only.
Base62 == <<"0", "1", "2", "3", "4", "5", "6", "7", "8", "9", "A", "b">>
IdOfLen(n, k) == [i \in 1..n |-> IF i = n THEN Base62[(k % 12) + 1] ELSE "x"]
TrackId(k) == IdOfLen(ID_WIDTH, k)

(***************************************************************************)
(* track_to_str and its local function fit.                                *)
(***************************************************************************)
\* A fit that leaves no room for the ellipsis: text[:length] + "...".
fit_no_room(text, length) ==
    IF Len(text) > length
    THEN SubSeq(text, 1, length) \o <<".", ".", ".">>
    ELSE text \o Spaces(length - Len(text))

\* text[:length-3] + "..." , or text.ljust(length)
fit(text, length) ==
    IF Len(text) > length
    THEN SubSeq(text, 1, length - 3) \o <<".", ".", ".">>
    ELSE text \o Spaces(length - Len(text))

\* ', '.join(artists)
RECURSIVE join(_)
join(names) ==
    IF Len(names) = 0 THEN <<>>
    ELSE IF Len(names) = 1 THEN names[1]
    ELSE names[1] \o <<",", " ">> \o join(Tail(names))

\* Whether track_to_str(t) raises: t is None (subscripting None), or the id
\* is None (len(None)), or the assert on the id's length fails.
track_to_str_raises(t) ==
    IF is_None_track(t) THEN TRUE
    ELSE IF t.id = None THEN TRUE
    ELSE Len(t.id) # ID_WIDTH

\* f"{name_str} | {artists_str} | {id_str}"
track_to_str(t) ==
    fit(t.name, TITLE_WIDTH) \o <<" ", "|", " ">>
        \o fit(join(t.artists), ARTIST_WIDTH) \o <<" ", "|", " ">> \o t.id

(***************************************************************************)
(* track_id_from_str: track_str.split('|')[-1].strip()                     *)
(***************************************************************************)
SetMin(S) == CHOOSE x \in S : \A y \in S : x <= y
SetMax(S) == CHOOSE x \in S : \A y \in S : y <= x

\* The first field instead of the last: s.split('|')[0].
split_first(s) ==
    LET bars == {i \in 1..Len(s) : s[i] = "|"} IN
    IF bars = {} THEN s ELSE SubSeq(s, 1, SetMin(bars) - 1)

\* s.split('|')[-1]: what follows the last '|', the whole of s without one.
split_last(s) ==
    LET bars == {i \in 1..Len(s) : s[i] = "|"} IN
    IF bars = {} THEN s ELSE SubSeq(s, SetMax(bars) + 1, Len(s))

\* The field taken as it is, not stripped.
strip_none(s) == s

\* s.strip(): s without its leading and trailing whitespace.
strip(s) ==
    LET keep == {i \in 1..Len(s) : s[i] \notin Whitespace} IN
    IF keep = {} THEN <<>> ELSE SubSeq(s, SetMin(keep), SetMax(keep))

track_id_from_str(track_str) == strip(split_last(track_str))

(***************************************************************************)
(* The codec on its own: a track is encoded, the line is decoded.          *)
(***************************************************************************)
\* Track records the codec is exercised on.
CodecTracks ==
    { [name |-> Text(tl, "a", IF tp = 2 THEN tl ELSE tp),
       artists |-> [i \in 1..n |-> Text(al, "b", IF tp = 2 THEN al ELSE tp)],
       id |-> id] :
        tl \in 0..MaxTitleLen, tp \in 0..2, n \in 0..MaxArtists,
        al \in 0..MaxArtistLen,
        id \in {TrackId(k) : k \in 1..NumIds}
                 \cup {IdOfLen(ID_WIDTH - 1, 1), IdOfLen(ID_WIDTH + 1, 1), None} }

CodecIdle ==
    /\ track = NoTrack
    /\ name_str = <<>>
    /\ artists_str = <<>>
    /\ line = <<>>
    /\ decoded = <<>>

PushIdle ==
    /\ remote = <<>>
    /\ prior = <<>>
    /\ ids_arg = <<>>
    /\ track_ids = <<>>
    /\ writes = <<>>

PullIdle ==
    /\ playlist = <<>>
    /\ total_tracks = 0
    /\ offset = 0
    /\ tracks = <<>>
    /\ requests = <<>>
    /\ file = <<>>

NoCommand == [cmd |-> "", name |-> "", answer |-> ""]
NothingPrinted == [msg |-> "", names |-> <<>>]

MainIdle ==
    /\ playlists = <<>>
    /\ library = <<>>
    /\ folder_exists = FALSE
    /\ entries = {}
    /\ content = <<>>
    /\ command = NoCommand
    /\ printed = NothingPrinted

CodecInit ==
    /\ pc = "codec"
    /\ raised = ""
    /\ PushIdle
    /\ PullIdle
    /\ MainIdle
    /\ track \in CodecTracks \cup {NoTrack}
    /\ name_str = <<>>
    /\ artists_str = <<>>
    /\ line = <<>>
    /\ decoded = <<>>

\* track_to_str(track) returns.
Encode ==
    /\ pc = "codec"
    /\ ~track_to_str_raises(track)
    /\ name_str' = fit(track.name, TITLE_WIDTH)
    /\ artists_str' = fit(join(track.artists), ARTIST_WIDTH)
    /\ line' = track_to_str(track)
    /\ pc' = "encoded"
    /\ UNCHANGED <<track, decoded, raised, pushVars, pullVars, mainVars>>

\* track_to_str(track) raises: the two columns are fitted before the assert
\* unless the record itself is missing.
EncodeRaises ==
    /\ pc = "codec"
    /\ track_to_str_raises(track)
    /\ name_str' = IF is_None_track(track) THEN <<>> ELSE fit(track.name, TITLE_WIDTH)
    /\ artists_str' = IF is_None_track(track) THEN <<>>
                      ELSE fit(join(track.artists), ARTIST_WIDTH)
    /\ pc' = "raised"
    /\ UNCHANGED <<track, line, decoded, raised, pushVars, pullVars, mainVars>>

\* track_id_from_str(line), on the line as returned or as readlines() hands
\* it back, with its "\n".
Decode ==
    /\ pc = "encoded"
    /\ \E nl \in {<<>>, <<"\n">>} : decoded' = track_id_from_str(line \o nl)
    /\ pc' = "decoded"
    /\ UNCHANGED <<track, name_str, artists_str, line, raised, pushVars, pullVars, mainVars>>

CodecNext == Encode \/ EncodeRaises \/ Decode

SpecCodec == CodecInit /\ [][CodecNext]_vars

(***************************************************************************)
(* set_playlist_tracks: one replace, then appends, chunk_size at a time.   *)
(***************************************************************************)
Min(a, b) == IF a < b THEN a ELSE b

\* A chunk one short: l[:n-1].
slice_to_short(l, n) == SubSeq(l, 1, Min(n - 1, Len(l)))

\* l[:n]
slice_to(l, n) == SubSeq(l, 1, Min(n, Len(l)))

\* A rest that skips one: l[n+1:].
slice_from_skip(l, n) == SubSeq(l, Min(n + 1, Len(l)) + 1, Len(l))

\* l[n:]
slice_from(l, n) == SubSeq(l, Min(n, Len(l)) + 1, Len(l))

\* A list of n identifiers, with repeats: the i-th is TrackId(i + seed).
IdList(n, seed) == [i \in 1..n |-> TrackId((i + seed) % NumIds)]

PushInit ==
    /\ pc = "push_start"
    /\ raised = ""
    /\ CodecIdle
    /\ PullIdle
    /\ MainIdle
    /\ \E n \in 0..MaxIds, seed \in 0..(NumIds - 1), m \in 0..MaxPrior :
          /\ ids_arg = IdList(n, seed)
          /\ prior = IdList(m, seed + 1)
    /\ track_ids = ids_arg
    /\ remote = prior
    /\ writes = <<>>

\* Lines 89-91: sp.playlist(playlist_id) returns the name for the progress bar.
PushBegin ==
    /\ pc = "push_start"
    /\ pc' = "push_replace"
    /\ UNCHANGED <<raised, codecVars, pushVars, pullVars, mainVars>>

\* A push that sends the first chunk only if it is not empty.
PushReplace_unless_empty ==
    /\ pc = "push_replace"
    /\ LET chunk == slice_to(track_ids, chunk_size) IN
          /\ track_ids' = slice_from(track_ids, chunk_size)
          /\ remote' = IF Len(chunk) > 0 THEN chunk ELSE remote
          /\ writes' = IF Len(chunk) > 0
                       THEN Append(writes, [op |-> "replace", chunk |-> chunk])
                       ELSE writes
    /\ pc' = "push_loop"
    /\ UNCHANGED <<raised, codecVars, prior, ids_arg, pullVars, mainVars>>

\* Lines 93-97: the first chunk goes through playlist_replace_items, which
\* discards the playlist's tracks and installs the chunk.
PushReplace ==
    /\ pc = "push_replace"
    /\ LET chunk == slice_to(track_ids, chunk_size) IN
          /\ track_ids' = slice_from(track_ids, chunk_size)
          /\ remote' = chunk
          /\ writes' = Append(writes, [op |-> "replace", chunk |-> chunk])
    /\ pc' = "push_loop"
    /\ UNCHANGED <<raised, codecVars, prior, ids_arg, pullVars, mainVars>>

\* Lines 99-105: one turn of the loop, playlist_add_items appends the chunk.
PushAdd ==
    /\ pc = "push_loop"
    /\ Len(track_ids) > 0
    /\ LET chunk == slice_to(track_ids, chunk_size) IN
          /\ track_ids' = slice_from(track_ids, chunk_size)
          /\ remote' = remote \o chunk
          /\ writes' = Append(writes, [op |-> "add", chunk |-> chunk])
    /\ UNCHANGED <<pc, raised, codecVars, prior, ids_arg, pullVars, mainVars>>

\* Lines 99, 107: the loop ends, set_playlist_tracks returns.
PushEnd ==
    /\ pc = "push_loop"
    /\ Len(track_ids) = 0
    /\ pc' = "push_done"
    /\ UNCHANGED <<raised, codecVars, pushVars, pullVars, mainVars>>

\* A failure handled by putting the prior content back before leaving.
PushRaises_rollback ==
    /\ \/ /\ pc = "push_start"
          /\ raised' = "playlist"
          /\ UNCHANGED track_ids
       \/ /\ pc = "push_replace"
          /\ raised' = "playlist_replace_items"
          /\ track_ids' = slice_from(track_ids, chunk_size)
       \/ /\ pc = "push_loop"
          /\ Len(track_ids) > 0
          /\ raised' = "playlist_add_items"
          /\ track_ids' = slice_from(track_ids, chunk_size)
    /\ pc' = "error"
    /\ remote' = prior
    /\ UNCHANGED <<codecVars, prior, ids_arg, writes, pullVars, mainVars>>

\* A remote call of set_playlist_tracks raises (network, auth, rate limit).
\* Nothing catches it: the call has no effect on the playlist, the function
\* is left at once, with the chunk already sliced off track_ids.
PushRaises ==
    /\ \/ /\ pc = "push_start"
          /\ raised' = "playlist"
          /\ UNCHANGED track_ids
       \/ /\ pc = "push_replace"
          /\ raised' = "playlist_replace_items"
          /\ track_ids' = slice_from(track_ids, chunk_size)
       \/ /\ pc = "push_loop"
          /\ Len(track_ids) > 0
          /\ raised' = "playlist_add_items"
          /\ track_ids' = slice_from(track_ids, chunk_size)
    /\ pc' = "error"
    /\ UNCHANGED <<codecVars, remote, prior, ids_arg, writes, pullVars, mainVars>>

PushNext == PushBegin \/ PushReplace \/ PushAdd \/ PushEnd \/ PushRaises

SpecPush == PushInit /\ [][PushNext]_vars

(***************************************************************************)
(* get_playlist_tracks and pull_playlist_to_file.                          *)
(***************************************************************************)
\* A page request whose offset is ignored.
playlist_tracks_first_page(items, limit, off) == slice_to(items, limit)

\* sp.playlist_tracks(playlist_id, limit, offset)['items']
playlist_tracks_items(items, limit, off) == slice_to(slice_from(items, off), limit)

INVALID_TRACK == <<"I", "N", "V", "A", "L", "I", "D", " ", "T", "R", "A", "C", "K">>

\* A loop that writes nothing for an item it cannot encode.
written_line_skips(item) ==
    IF track_to_str_raises(item.track)
    THEN <<>>
    ELSE track_to_str(item.track) \o <<"\n">>

\* Lines 77-80: what one turn of the loop writes for an item: the encoded
\* line, or the sentinel when anything in track_to_str(item['track']) raises.
written_line(item) ==
    IF track_to_str_raises(item.track)
    THEN INVALID_TRACK \o <<"\n">>
    ELSE track_to_str(item.track) \o <<"\n">>

\* Lines 75-81: what the loop writes for items[lo..hi], in order.  (The
\* range is halved only to keep the evaluation shallow: the result is the
\* concatenation of the lines of items lo, lo+1, ..., hi.)
RECURSIVE write_tracks(_, _, _)
write_tracks(items, lo, hi) ==
    IF lo > hi THEN <<>>
    ELSE IF lo = hi THEN written_line(items[lo])
    ELSE LET mid == (lo + hi) \div 2 IN
         write_tracks(items, lo, mid) \o write_tracks(items, mid + 1, hi)

\* The members of a set S of numbers of lo..hi, in increasing order.
RECURSIVE Sorted(_, _, _)
Sorted(S, lo, hi) ==
    IF S = {} THEN <<>>
    ELSE IF lo = hi THEN <<lo>>
    ELSE LET mid == (lo + hi) \div 2 IN
         Sorted({x \in S : x <= mid}, lo, mid) \o Sorted({x \in S : x > mid}, mid + 1, hi)

\* Lines 115-116, f.readlines(): the file cut after each "\n"; every line
\* keeps its "\n", and what follows the last "\n" is a line too.
readlines(f) ==
    LET ends == Sorted({i \in 1..Len(f) : f[i] = "\n"}, 1, Len(f))
        n == Len(ends)
        from(k) == IF k = 1 THEN 1 ELSE ends[k - 1] + 1
        whole == [k \in 1..n |-> SubSeq(f, from(k), ends[k])]
    IN  IF from(n + 1) <= Len(f)
        THEN Append(whole, SubSeq(f, from(n + 1), Len(f)))
        ELSE whole

\* Line 117: [track_id_from_str(track) for track in tracks]
ids_of_lines(lines) == [i \in 1..Len(lines) |-> track_id_from_str(lines[i])]

\* The i-th item of a playlist whose every stride-th item is invalid, in turn
\* a missing track record, a track without id, an id one character short and
\* an id one character long.  Titles and artists vary with i: short and over
\* the column width, with and without a '|'.
PlaylistItem(i, stride) ==
    LET pipe(len) == IF i % 3 = 2 THEN len ELSE i % 3
        tl == (i * 7) % (MaxTitleLen + 1)
        al == (i * 5) % (MaxArtistLen + 1)
        good(id) == [name |-> Text(tl, "a", pipe(tl)),
                     artists |-> [j \in 1..(i % (MaxArtists + 1)) |-> Text(al, "b", pipe(al))],
                     id |-> id]
        kind == IF stride > 0 /\ i % stride = 0 THEN ((i \div stride) % 4) + 1 ELSE 0
    IN  [track |-> CASE kind = 0 -> good(TrackId(i))
                     [] kind = 1 -> NoTrack
                     [] kind = 2 -> good(None)
                     [] kind = 3 -> good(IdOfLen(ID_WIDTH - 1, i))
                     [] kind = 4 -> good(IdOfLen(ID_WIDTH + 1, i))]

\* The track list of a playlist of items.
ItemIds(items) ==
    [i \in 1..Len(items) |->
        IF is_None_track(items[i].track) THEN None ELSE items[i].track.id]

SyncInit ==
    /\ pc = "pull_start"
    /\ raised = ""
    /\ CodecIdle
    /\ MainIdle
    /\ \E n \in 0..MaxTracks, stride \in 0..MaxStride :
          playlist = [i \in 1..n |-> PlaylistItem(i, stride)]
    /\ remote = ItemIds(playlist)
    /\ prior = <<>>
    /\ ids_arg = <<>>
    /\ track_ids = <<>>
    /\ writes = <<>>
    /\ total_tracks = 0
    /\ offset = 0
    /\ tracks = <<>>
    /\ requests = <<>>
    /\ file = <<>>

\* Lines 51-57: the size probe (limit=1) and the name for the progress bar.
PullProbe ==
    /\ pc = "pull_start"
    /\ tracks' = <<>>
    /\ offset' = 0
    /\ total_tracks' = Len(playlist)
    /\ requests' = Append(requests, [limit |-> 1, offset |-> 0])
    /\ pc' = "pull_loop"
    /\ UNCHANGED <<raised, codecVars, pushVars, playlist, file, mainVars>>

\* Lines 59-63: one page.
PullPage ==
    /\ pc = "pull_loop"
    /\ offset < total_tracks
    /\ tracks' = tracks \o playlist_tracks_items(playlist, chunk_size, offset)
    /\ requests' = Append(requests, [limit |-> chunk_size, offset |-> offset])
    /\ offset' = offset + chunk_size
    /\ UNCHANGED <<pc, raised, codecVars, pushVars, playlist, total_tracks, file, mainVars>>

\* Lines 59, 65-66: the loop ends, get_playlist_tracks returns tracks.
PullReturn ==
    /\ pc = "pull_loop"
    /\ ~(offset < total_tracks)
    /\ pc' = "pull_write"
    /\ UNCHANGED <<raised, codecVars, pushVars, pullVars, mainVars>>

\* Lines 75-81: the file is truncated and one line is written per item.
PullWrite ==
    /\ pc = "pull_write"
    /\ file' = write_tracks(tracks, 1, Len(tracks))
    /\ pc' = "pull_done"
    /\ UNCHANGED <<raised, codecVars, pushVars, playlist, total_tracks, offset,
                   tracks, requests, mainVars>>

\* A remote call of get_playlist_tracks raises; nothing catches it and the
\* file is not opened.
PullRaises ==
    /\ \/ /\ pc = "pull_start"
          /\ raised' \in {"playlist_tracks", "playlist"}
       \/ /\ pc = "pull_loop"
          /\ offset < total_tracks
          /\ raised' = "playlist_tracks"
    /\ pc' = "error"
    /\ UNCHANGED <<codecVars, pushVars, pullVars, mainVars>>

\* Lines 115-118: push_playlist_from_file reads the file back and hands the
\* identifiers of its lines to set_playlist_tracks.
PushRead ==
    /\ pc = "pull_done"
    /\ ids_arg' = ids_of_lines(readlines(file))
    /\ track_ids' = ids_arg'
    /\ prior' = remote
    /\ writes' = <<>>
    /\ pc' = "push_start"
    /\ UNCHANGED <<raised, codecVars, remote, pullVars, mainVars>>

SyncNext ==
    \/ PullProbe \/ PullPage \/ PullReturn \/ PullWrite \/ PullRaises
    \/ PushRead \/ PushNext

SpecSync == SyncInit /\ [][SyncNext]_vars

(***************************************************************************)
(* The command loop (lines 120-180).  Each command is handled in one step: *)
(* the loop reads a line, handles it and is back at the prompt, unless an  *)
(* exception nothing catches ends the process.                             *)
(***************************************************************************)
Names == {"A", "B"}
PlaylistId == [n \in Names |-> IF n = "A" THEN "id_A" ELSE "id_B"]

\* The track record the service serves for an identifier of its catalogue;
\* an identifier it does not know is served without a track record.
ServedItem(id) ==
    LET known == {k \in 1..Len(Base62) : Base62[k] = id[Len(id)]} IN
    IF id = None \/ Len(id) # ID_WIDTH \/ known = {} THEN [track |-> NoTrack]
    ELSE LET k == CHOOSE k \in known : TRUE IN
         [track |-> [name |-> Text((k * 7) % (MaxTitleLen + 1), "a", k % 2),
                     artists |-> [j \in 1..(k % (MaxArtists + 1)) |->
                                     Text((k * 5) % (MaxArtistLen + 1), "b", 0)],
                     id |-> id]]

ServedItems(ids) == [i \in 1..Len(ids) |-> ServedItem(ids[i])]

\* Lines 133, 169: next((p for p in playlists['items'] if p['name'] == name),
\* None), as the index of the first match, 0 for None.
find_playlist(items, name) ==
    LET hits == {i \in 1..Len(items) : items[i].name = name} IN
    IF hits = {} THEN 0 ELSE CHOOSE i \in hits : \A j \in hits : i <= j

\* Lines 157-162: the stems of the folder's regular files ending in '.txt'.
local_playlists(es) == {e.stem : e \in {x \in es : x.isfile /\ x.ext = ".txt"}}

\* Line 140: os.path.exists(playlists/<name>.txt), a file or a directory.
path_exists(es, name) == \E e \in es : e.stem = name /\ e.ext = ".txt"

\* Lines 51-66, get_playlist_tracks in one piece: the pages from off on.
RECURSIVE get_playlist_tracks(_, _, _)
get_playlist_tracks(items, total, off) ==
    IF off < total
    THEN playlist_tracks_items(items, chunk_size, off)
             \o get_playlist_tracks(items, total, off + chunk_size)
    ELSE <<>>

\* Lines 99-105 in one piece: the appends for what is left of track_ids.
RECURSIVE add_items_calls(_)
add_items_calls(ids) ==
    IF Len(ids) > 0
    THEN <<[op |-> "add", chunk |-> slice_to(ids, chunk_size)]>>
             \o add_items_calls(slice_from(ids, chunk_size))
    ELSE <<>>

\* Lines 93-105 in one piece: the remote writes of set_playlist_tracks.
set_playlist_tracks_calls(ids) ==
    <<[op |-> "replace", chunk |-> slice_to(ids, chunk_size)]>>
        \o add_items_calls(slice_from(ids, chunk_size))

\* The track list after the first k of the calls returned.
RECURSIVE after_calls(_, _, _)
after_calls(list, calls, k) ==
    IF k = 0 THEN list
    ELSE LET before == after_calls(list, calls, k - 1) IN
         IF calls[k].op = "replace" THEN calls[k].chunk ELSE before \o calls[k].chunk

Listings ==
    { <<>>,
      <<[id |-> PlaylistId["A"], name |-> "A"]>>,
      <<[id |-> PlaylistId["B"], name |-> "B"]>>,
      <<[id |-> PlaylistId["A"], name |-> "A"], [id |-> PlaylistId["B"], name |-> "B"]>>,
      <<[id |-> PlaylistId["A"], name |-> "A"], [id |-> PlaylistId["B"], name |-> "A"]>> }

Folders ==
    { es \in SUBSET { [stem |-> "A", ext |-> ".txt", isfile |-> TRUE],
                      [stem |-> "B", ext |-> ".txt", isfile |-> TRUE],
                      [stem |-> "B", ext |-> ".txt", isfile |-> FALSE],
                      [stem |-> "A", ext |-> ".md", isfile |-> TRUE] } :
        ~(\E e1, e2 \in es : e1.stem = e2.stem /\ e1.ext = e2.ext /\ e1 # e2) }

MainInit ==
    /\ pc = "prompt"
    /\ raised = ""
    /\ CodecIdle
    /\ PushIdle
    /\ PullIdle
    /\ playlists \in Listings
    /\ \E n \in 0..MaxLoopTracks :
          library = [id \in {PlaylistId[x] : x \in Names} |-> IdList(n, 0)]
    /\ folder_exists \in BOOLEAN
    /\ entries \in IF folder_exists THEN Folders ELSE {{}}
    /\ \E m \in 0..MaxLoopTracks :
          content = [x \in Names |->
                        IF x \in local_playlists(entries)
                        THEN write_tracks([i \in 1..m |-> PlaylistItem(i, 2)], 1, m)
                        ELSE <<>>]
    /\ command = NoCommand
    /\ printed = NothingPrinted

NamesOf(items) == [i \in 1..Len(items) |-> items[i].name]

\* Lines 125-126 and 173-175: an empty line, or neither pull nor push.
CmdOther ==
    /\ pc = "prompt"
    /\ \E c \in {"", "other"} :
          /\ command' = [cmd |-> c, name |-> "", answer |-> ""]
          /\ printed' = [msg |-> IF c = "" THEN "" ELSE "Invalid command", names |-> <<>>]
    /\ writes' = <<>>
    /\ UNCHANGED <<pc, raised, codecVars, remote, prior, ids_arg, track_ids, pullVars,
                   playlists, library, folder_exists, entries, content>>

\* Lines 130-138: pull, no playlist of that name: the names are listed.
PullNotFound ==
    /\ pc = "prompt"
    /\ \E name \in Names \cup {""} :
          /\ find_playlist(playlists, name) = 0
          /\ command' = [cmd |-> "pull", name |-> name, answer |-> ""]
    /\ printed' = [msg |-> "Playlist not found", names |-> NamesOf(playlists)]
    /\ writes' = <<>>
    /\ UNCHANGED <<pc, raised, codecVars, remote, prior, ids_arg, track_ids, pullVars,
                   playlists, library, folder_exists, entries, content>>

\* Lines 139-145: pull, the file exists and the answer is not y, yes or ''.
PullSkip ==
    /\ pc = "prompt"
    /\ \E name \in Names, answer \in {"n"} :
          /\ find_playlist(playlists, name) # 0
          /\ folder_exists /\ path_exists(entries, name)
          /\ answer \notin {"y", "yes", ""}
          /\ command' = [cmd |-> "pull", name |-> name, answer |-> answer]
    /\ printed' = [msg |-> "Skipping", names |-> <<>>]
    /\ writes' = <<>>
    /\ UNCHANGED <<pc, raised, codecVars, remote, prior, ids_arg, track_ids, pullVars,
                   playlists, library, folder_exists, entries, content>>

\* Lines 139-149: pull, the playlist is written to its file; or a remote call
\* of get_playlist_tracks raises, or open() does on a directory of that name,
\* and the process ends.
PullFile ==
    /\ pc = "prompt"
    /\ \E name \in Names, answer \in {"y", "yes", ""}, fails \in BOOLEAN :
          LET k == find_playlist(playlists, name)
              items == ServedItems(library[playlists[k].id])
              fetched == get_playlist_tracks(items, Len(items), 0)
              isdir == [stem |-> name, ext |-> ".txt", isfile |-> FALSE] \in entries
          IN  /\ k # 0
              /\ command' = [cmd |-> "pull", name |-> name,
                             answer |-> IF folder_exists /\ path_exists(entries, name)
                                        THEN answer ELSE ""]
              /\ folder_exists' = TRUE
              /\ IF fails \/ isdir
                 THEN /\ pc' = "crashed"
                      /\ raised' = IF fails THEN "playlist_tracks" ELSE "open"
                      /\ printed' = [msg |-> "Traceback", names |-> <<>>]
                      /\ UNCHANGED <<entries, content>>
                 ELSE /\ pc' = "prompt"
                      /\ raised' = ""
                      /\ printed' = [msg |-> "Pulled", names |-> <<>>]
                      /\ entries' = entries \cup {[stem |-> name, ext |-> ".txt", isfile |-> TRUE]}
                      /\ content' = [content EXCEPT ![name] = write_tracks(fetched, 1, Len(fetched))]
    /\ writes' = <<>>
    /\ UNCHANGED <<codecVars, remote, prior, ids_arg, track_ids, pullVars, playlists, library>>

\* Lines 152-154: push, the folder does not exist.
PushNoFolder ==
    /\ pc = "prompt"
    /\ ~folder_exists
    /\ \E name \in Names \cup {""} :
          command' = [cmd |-> "push", name |-> name, answer |-> ""]
    /\ printed' = [msg |-> "Folder does not exist", names |-> <<>>]
    /\ writes' = <<>>
    /\ UNCHANGED <<pc, raised, codecVars, remote, prior, ids_arg, track_ids, pullVars,
                   playlists, library, folder_exists, entries, content>>

\* Lines 155-167: push, no local file of that stem: the stems are listed.
PushNotLocal ==
    /\ pc = "prompt"
    /\ folder_exists
    /\ \E name \in Names \cup {""} :
          /\ name \notin local_playlists(entries)
          /\ command' = [cmd |-> "push", name |-> name, answer |-> ""]
    /\ printed' = [msg |-> "Playlist not found in local playlists", names |-> local_playlists(entries)]
    /\ writes' = <<>>
    /\ UNCHANGED <<pc, raised, codecVars, remote, prior, ids_arg, track_ids, pullVars,
                   playlists, library, folder_exists, entries, content>>

\* Lines 168-170: push, the file is there and no playlist has that name:
\* playlist is None and playlist['id'] raises TypeError, which neither except
\* clause of the loop catches.
PushNoRemote ==
    /\ pc = "prompt"
    /\ folder_exists
    /\ \E name \in Names :
          /\ name \in local_playlists(entries)
          /\ find_playlist(playlists, name) = 0
          /\ command' = [cmd |-> "push", name |-> name, answer |-> ""]
    /\ pc' = "crashed"
    /\ raised' = "TypeError"
    /\ printed' = [msg |-> "Traceback", names |-> <<>>]
    /\ writes' = <<>>
    /\ UNCHANGED <<codecVars, remote, prior, ids_arg, track_ids, pullVars,
                   playlists, library, folder_exists, entries, content>>

\* Lines 168-171: push, the file's identifiers are sent; done counts the remote
\* writes that return before one raises (all of them: the push completes).
PushFile ==
    /\ pc = "prompt"
    /\ folder_exists
    /\ \E name \in Names :
          LET k == find_playlist(playlists, name)
              ids == ids_of_lines(readlines(content[name]))
              calls == set_playlist_tracks_calls(ids)
          IN  /\ name \in local_playlists(entries)
              /\ k # 0
              /\ command' = [cmd |-> "push", name |-> name, answer |-> ""]
              /\ \E done \in 0..Len(calls) :
                    /\ writes' = SubSeq(calls, 1, done)
                    /\ library' = [library EXCEPT ![playlists[k].id] =
                                      after_calls(@, calls, done)]
                    /\ IF done = Len(calls)
                       THEN /\ pc' = "prompt"
                            /\ raised' = ""
                            /\ printed' = [msg |-> "", names |-> <<>>]
                       ELSE /\ pc' = "crashed"
                            /\ raised' = IF done = 0 THEN "playlist_replace_items"
                                         ELSE "playlist_add_items"
                            /\ printed' = [msg |-> "Traceback", names |-> <<>>]
    /\ UNCHANGED <<codecVars, remote, prior, ids_arg, track_ids, pullVars,
                   playlists, folder_exists, entries, content>>

\* Lines 177-180: end of input or an interrupt at the prompt ends the loop.
Quit ==
    /\ pc = "prompt"
    /\ pc' = "exit"
    /\ command' = [cmd |-> "EOF", name |-> "", answer |-> ""]
    /\ printed' = NothingPrinted
    /\ writes' = <<>>
    /\ UNCHANGED <<raised, codecVars, remote, prior, ids_arg, track_ids, pullVars,
                   playlists, library, folder_exists, entries, content>>

MainNext ==
    \/ CmdOther \/ PullNotFound \/ PullSkip \/ PullFile
    \/ PushNoFolder \/ PushNotLocal \/ PushNoRemote \/ PushFile \/ Quit

SpecMain == MainInit /\ [][MainNext]_vars

(***************************************************************************)
(* Properties.                                                             *)
(***************************************************************************)
CeilDiv(a, b) == (a + b - 1) \div b

\* The j-th chunk of chunk_size identifiers of ids.
ChunkOf(ids, j) == SubSeq(ids, (j - 1) * chunk_size + 1, Min(j * chunk_size, Len(ids)))

\* C1: when set_playlist_tracks completes with no remote call failing, the
\* remote playlist's track list is exactly the list it was handed: same
\* elements, same order, same length, nothing left of the prior content.
C1_PushSetsExactly ==
    pc = "push_done" =>
        /\ Len(remote) = Len(ids_arg)
        /\ \A i \in 1..Len(ids_arg) : remote[i] = ids_arg[i]

C1_Witness ==
    /\ pc = "push_done"
    /\ Len(ids_arg) > 2 * chunk_size
    /\ Len(prior) > 0

\* C2 as stated: pushing N identifiers issues exactly ceil(N/100) remote
\* writes, one replace carrying the first min(N,100) identifiers followed by
\* ceil((N-100)/100) appends when N > 100, one replace only otherwise.
C2_Original ==
    pc = "push_done" =>
        LET N == Len(ids_arg) IN
        /\ Len(writes) = CeilDiv(N, chunk_size)
        /\ Len(writes) = 1 + (IF N > chunk_size THEN CeilDiv(N - chunk_size, chunk_size) ELSE 0)
        /\ \A j \in 1..Len(writes) :
              /\ writes[j].op = (IF j = 1 THEN "replace" ELSE "add")
              /\ writes[j].chunk = ChunkOf(ids_arg, j)

\* C2 as amended: pushing N identifiers issues one replace carrying the first
\* min(N,100) identifiers, followed by ceil((N-100)/100) appends of the next
\* identifiers, 100 at a time, when N > 100: ceil(N/100) remote writes for
\* N >= 1, and one (the replace, with an empty chunk) for N = 0.
C2_Amended ==
    pc = "push_done" =>
        LET N == Len(ids_arg) IN
        /\ Len(writes) = (IF N = 0 THEN 1 ELSE CeilDiv(N, chunk_size))
        /\ Len(writes) = 1 + (IF N > chunk_size THEN CeilDiv(N - chunk_size, chunk_size) ELSE 0)
        /\ \A j \in 1..Len(writes) :
              /\ writes[j].op = (IF j = 1 THEN "replace" ELSE "add")
              /\ writes[j].chunk = ChunkOf(ids_arg, j)

C2_Witness ==
    /\ pc = "push_done"
    /\ Len(ids_arg) = 2 * chunk_size + 1
    /\ Len(writes) = 3

\* C3: pushing an empty identifier list issues exactly one replace whose
\* chunk is empty and no append, and the remote playlist is empty afterwards
\* whatever it held before.
C3_EmptyPushClears ==
    (pc = "push_done" /\ Len(ids_arg) = 0) =>
        /\ writes = <<[op |-> "replace", chunk |-> <<>>]>>
        /\ remote = <<>>

C3_Witness ==
    /\ pc = "push_done"
    /\ Len(ids_arg) = 0
    /\ Len(prior) > 0
    /\ remote = <<>>

\* C9: when a remote write of set_playlist_tracks fails after k chunks were
\* applied, the remote playlist holds exactly the first k chunks of the list
\* (its prior content when k = 0), the k writes that returned carried those
\* chunks, and nothing more is sent, rolled back or retried: the function is
\* left with the error.
C9_PartialPush ==
    (pc = "error" /\ raised \in {"playlist_replace_items", "playlist_add_items"}) =>
        LET k == Len(writes) IN
        /\ remote = (IF k = 0 THEN prior
                     ELSE SubSeq(ids_arg, 1, Min(k * chunk_size, Len(ids_arg))))
        /\ \A j \in 1..k : writes[j].chunk = ChunkOf(ids_arg, j)
        /\ k * chunk_size < Len(ids_arg) \/ k = 0
        /\ ~ENABLED PushNext

C9_Witness ==
    /\ pc = "error"
    /\ raised = "playlist_add_items"
    /\ Len(writes) = 2
    /\ Len(prior) > 0
    /\ Len(remote) = 2 * chunk_size

\* The columns of a line, as the claims describe them.
IsFitted(out, text, width) ==
    /\ Len(out) = width
    /\ IF Len(text) <= width
       THEN /\ \A i \in 1..Len(text) : out[i] = text[i]
            /\ \A i \in (Len(text) + 1)..width : out[i] = " "
       ELSE /\ \A i \in 1..(width - 3) : out[i] = text[i]
            /\ \A i \in (width - 2)..width : out[i] = "."

\* C5: for every track whose identifier has exactly 22 characters, whatever
\* its title and artists (with a '|', over the column width),
\* track_id_from_str(track_to_str(track)) is the track's identifier.
C5_DecodeEncode ==
    (pc = "decoded" /\ Len(track.id) = ID_WIDTH) => decoded = track.id

C5_Witness ==
    /\ pc = "decoded"
    /\ Len(track.name) > TITLE_WIDTH
    /\ track.name[1] = "|"
    /\ Len(track.artists) = 2
    /\ Len(join(track.artists)) > ARTIST_WIDTH
    /\ decoded = track.id

\* C8: for the widths used (50 for titles, 40 for artists) and every text,
\* fit returns exactly width characters: the text right-padded with spaces
\* when it fits, its first width-3 characters followed by '...' when not.
C8_FitWidth ==
    (pc \in {"encoded", "raised", "decoded"} /\ ~is_None_track(track)) =>
        /\ IsFitted(name_str, track.name, 50)
        /\ IsFitted(artists_str, join(track.artists), 40)

C8_Witness ==
    /\ pc = "encoded"
    /\ Len(track.name) = TITLE_WIDTH + 1
    /\ Len(track.artists) = 1
    /\ Len(track.artists[1]) = ARTIST_WIDTH - 20
    /\ Len(name_str) = 50
    /\ Len(artists_str) = 40

\* C4: a pull of a playlist whose size probe reports total tracks issues page
\* requests with limit 100 at offsets 0, 100, 200, ... in increasing order,
\* stops when the items fetched are total in number, and the file then holds
\* exactly total lines, one per track in playlist order.
C4_PullPages ==
    /\ pc = "pull_loop" => Len(tracks) = Min(offset, total_tracks)
    /\ pc \in {"pull_write", "pull_done"} =>
          /\ total_tracks = Len(playlist)
          /\ Len(requests) = 1 + CeilDiv(total_tracks, 100)
          /\ requests[1] = [limit |-> 1, offset |-> 0]
          /\ \A j \in 2..Len(requests) :
                requests[j] = [limit |-> 100, offset |-> 100 * (j - 2)]
          /\ Len(tracks) = total_tracks
          /\ \A i \in 1..total_tracks : tracks[i] = playlist[i]
    /\ pc = "pull_done" =>
          LET lines == readlines(file) IN
          /\ Cardinality({i \in 1..Len(file) : file[i] = "\n"}) = total_tracks
          /\ Len(lines) = total_tracks
          /\ \A i \in 1..total_tracks :
                \/ track_to_str_raises(playlist[i].track)
                \/ lines[i] = track_to_str(playlist[i].track) \o <<"\n">>

C4_Witness ==
    /\ pc = "pull_done"
    /\ total_tracks = 2 * chunk_size + 1
    /\ Len(requests) = 4
    /\ requests[4].offset = 200

\* C10: when encoding the track at position i fails during a pull (an
\* identifier that has not exactly 22 characters, a missing track record),
\* line i of the file is exactly 'INVALID TRACK', the pull goes on, and every
\* other position j holds the encoded line of track j: one line per fetched
\* item, in playlist order.
C10_InvalidTrackLine ==
    pc = "pull_done" =>
        LET lines == readlines(file) IN
        /\ Len(lines) = Len(tracks)
        /\ \A i \in 1..Len(tracks) :
              LET t == tracks[i].track
                  bad == IF is_None_track(t) THEN TRUE
                         ELSE IF t.id = None THEN TRUE ELSE Len(t.id) # 22
              IN  lines[i] = IF bad
                             THEN <<"I", "N", "V", "A", "L", "I", "D", " ",
                                    "T", "R", "A", "C", "K", "\n">>
                             ELSE track_to_str(t) \o <<"\n">>

C10_Witness ==
    /\ pc = "pull_done"
    /\ \E i, j, k \in 1..Len(tracks) :
          /\ i < j /\ j < k
          /\ is_None_track(tracks[i].track)
          /\ ~track_to_str_raises(tracks[j].track)
          /\ ~is_None_track(tracks[k].track)
          /\ tracks[k].track.id # None
          /\ Len(tracks[k].track.id) = ID_WIDTH - 1
    /\ Len(readlines(file)) = Len(tracks)

\* Every item of the pulled playlist has a track with a 22-character id.
AllValid == \A i \in 1..Len(playlist) : ~track_to_str_raises(playlist[i].track)

\* C6: for a remote playlist of at most 100 tracks, each with a 22-character
\* identifier, pulling it to its file and pushing that file back sends the
\* original identifiers in the original order through exactly one replace
\* call, and leaves the remote track list as it was before the pull.
C6_RoundTrip ==
    (pc = "push_done" /\ Len(playlist) <= 100 /\ AllValid) =>
        /\ writes = <<[op |-> "replace", chunk |-> ItemIds(playlist)]>>
        /\ ids_arg = ItemIds(playlist)
        /\ remote = ItemIds(playlist)
        /\ remote = prior

C6_Witness ==
    /\ pc = "push_done"
    /\ Len(playlist) = 100
    /\ AllValid
    /\ \E i, j \in 1..Len(playlist) :
          /\ Len(playlist[i].track.name) > TITLE_WIDTH
          /\ Len(playlist[j].track.name) > 1
          /\ playlist[j].track.name[1] = "|"
    /\ Len(writes) = 1
    /\ remote = ItemIds(playlist)

\* Whether command c names a playlist that is not found: for pull no remote
\* playlist of that name; for push, with the folder there, no local file of
\* that stem or no remote playlist of that name.
NotFound(c) ==
    \/ /\ c.cmd = "pull"
       /\ find_playlist(playlists, c.name) = 0
    \/ /\ c.cmd = "push"
       /\ folder_exists
       /\ \/ c.name \notin local_playlists(entries)
          \/ find_playlist(playlists, c.name) = 0

\* C7: in the command loop, a playlist name that is not found during pull or
\* push is recovered: the available names are listed, the command is aborted
\* with no remote write and no file change, no remote playlist is created,
\* and the loop goes on to read the next command.
C7_NotFoundRecovered ==
    [][(pc = "prompt" /\ NotFound(command')) =>
          /\ pc' = "prompt"
          /\ printed'.names = (IF command'.cmd = "pull" THEN NamesOf(playlists)
                               ELSE local_playlists(entries))
          /\ printed'.msg # "Traceback"
          /\ writes' = <<>>
          /\ UNCHANGED <<playlists, library, entries, content>>]_vars

====
